---- MODULE Spec2Model ----
(***************************************************************************)
(* LabelFlicks backend: the video preprocessing job (main.py,              *)
(* preprocess_video / predict_bounding_boxes), the handlers that start it  *)
(* (upload_project_video, restart_video_preprocess), explicit label        *)
(* creation (create_project_labels), the correction handlers              *)
(* (update_bounding_boxes, update_boxes_without_inference), the projects   *)
(* table (create_project, get_all_projects) and the other handlers that    *)
(* take a project id or a video id, over the record store of sql_app.      *)
(*                                                                         *)
(* Handlers declared with def run on worker threads and background jobs    *)
(* run on worker threads too, so their database statements interleave:     *)
(* every action below is one committed statement (or a run of statements   *)
(* that touch nothing another thread can observe in between).              *)
(*                                                                         *)
(* sql_app under src/ does not define everything main.py calls: the        *)
(* functions insert_one_frame, get_labels_by_project, update_boxes and     *)
(* get_box_vectors_and_labels_by_video_id and the columns                  *)
(* Video.preprocessing_status, BoundingBox.prediction and                  *)
(* BoundingBox.image_features are absent from it. Those are modelled from  *)
(* the specification; everything that is present is modelled as written.   *)
(***************************************************************************)
EXTENDS Integers, Sequences, FiniteSets, TLC

(***************************************************************************)
(* Bounds                                                                  *)
(***************************************************************************)
\* Number of preprocessing jobs (uploads plus restarts) a behaviour may start.
MaxJobs == 2

\* Ids of the projects of the seeded projects table (a row's id is its
\* position).
Projects == {1, 2}

\* Videos a client may upload.
UploadVideos == {"v1"}

\* The video already preprocessed in a seeded record store.
SeedVideo == "v0"

Videos == UploadVideos \cup {SeedVideo}

\* <<frame count, frames per second>> of the byte streams a client uploads,
\* as cv2.CAP_PROP_FRAME_COUNT and cv2.CAP_PROP_FPS report them.
VideoShapes == {<<0, 1>>, <<3, 2>>}

\* Sets of class names the detection model may report on a frame.
DetSets == {{}, {"car"}, {"car", "dog"}}

\* Largest frame count and largest native rate of the videos whose sampling
\* schedule is enumerated.
MaxFrameCount == 9

MaxRate == 3

SamplingShapes == {<<c, f>> : c \in 0..MaxFrameCount, f \in 1..MaxRate}

\* Rectangles (corners, width and height taken together) a box may have.
Geometries == {"g1", "g2"}

\* main.py:209 inserted_frame = False: no Frame row yet.
NoFrame == 0

\* crud.py:33-34 get_project_by_id returning None: no project row.
NoProject == 0

VARIABLES
    azure,      \* main.py:54-56 blob_service_client is set (remote blob store)
    projects,   \* projects table: sequence of rows, a row's id is its position
    videos,     \* videos table: id -> row, or NoVideo
    frames,     \* frames table: sequence of rows, a row's id is its position
    labels,     \* labels table: sequence of rows, a row's id is its position
    boxes,      \* bounding_boxes table: sequence of rows, id is position
    stored,     \* image files / blobs written: set of <<video, index>>
    jobs,       \* background tasks: job id -> record
    trainer,    \* the update_bounding_boxes request in flight, if any
    response    \* the last response a handler returned

vars == <<azure, projects, videos, frames, labels, boxes, stored, jobs, trainer, response>>

NoVideo == [exists |-> FALSE, project |-> NoProject, shape |-> <<0, 1>>, status |-> "unset"]

JobIds == 1..MaxJobs

IdleJob == [pc |-> "idle", video |-> "none", project |-> NoProject, kind |-> "none", prior |-> "unset",
            index |-> 0, det |-> {}, toInsert |-> {}, frame |-> NoFrame,
            failedAt |-> -1, err |-> "none", sampled |-> <<>>, detected |-> 0]

IdleTrainer == [pc |-> "idle", project |-> NoProject, video |-> "none",
                label2id |-> <<>>, unreviewed |-> <<>>, confirmed |-> {},
                train |-> <<>>]

NoResponse == [op |-> "none", target |-> "none", code |-> 0, body |-> <<>>]

(***************************************************************************)
(* Frame sampling                                                          *)
(***************************************************************************)
\* np.arange(start, stop, step) for a positive step: start, start + step,
\* ... as long as the value is below stop.
RECURSIVE arange(_, _, _)
arange(start, stop, step) ==
    IF start >= stop THEN <<>> ELSE <<start>> \o arange(start + step, stop, step)

\* One sample per turn, as many turns as the video has whole seconds.
SampleCountFloor(shape) == shape[1] \div shape[2]

\* main.py:197 for frame in np.arange(0, num_frames, fps): the number of
\* turns of the loop.
SampleCount(shape) == Len(arange(0, shape[1], shape[2]))

\* main.py:197-198 the source frame index of turn i (counted from 0), which
\* vidcap.set makes the next frame to decode.
SampleIndex(shape, i) == arange(0, shape[1], shape[2])[i + 1]

(***************************************************************************)
(* Record store (sql_app/crud.py, sql_app/models.py)                       *)
(***************************************************************************)
\* crud.py:79-86 set_video_preprocessing_status: UPDATE ... WHERE id, commit.
set_video_preprocessing_status(v, s) == [videos EXCEPT ![v].status = s]

\* crud.py:153-158 get_label_by_name_and_project: first row with this name
\* in this project, or None (0).
get_label_by_name_and_project(name, p) ==
    LET ids == {i \in 1..Len(labels) : labels[i].name = name /\ labels[i].project = p}
    IN IF ids = {} THEN 0 ELSE CHOOSE i \in ids : \A k \in ids : i <= k

\* models.py:70 name = Column('name', String, unique=True): the constraint
\* is on the name alone, not on (project, name).
LabelUniqueViolated(rows, name, p) == \E i \in 1..Len(rows) : rows[i].name = name

\* A list of names without repetition, in some order.
RECURSIVE SeqOfSet(_)
SeqOfSet(S) == IF S = {} THEN <<>>
               ELSE LET x == CHOOSE y \in S : TRUE IN <<x>> \o SeqOfSet(S \ {x})

\* crud.py:145-150 insert_labels: add_all and one commit. The rows are
\* flushed in order; a row the unique constraint rejects raises
\* IntegrityError and nothing of the batch is committed.
RECURSIVE InsertRows(_, _, _)
InsertRows(rows, names, p) ==
    IF names = <<>> THEN [ok |-> TRUE, rows |-> rows]
    ELSE IF LabelUniqueViolated(rows, Head(names), p)
         THEN [ok |-> FALSE, rows |-> rows]
         ELSE InsertRows(Append(rows, [name |-> Head(names), project |-> p]), Tail(names), p)

insert_labels(names, p) ==
    LET r == InsertRows(labels, names, p)
    IN IF r.ok THEN r ELSE [ok |-> FALSE, rows |-> labels]

\* get_labels_by_project (called at main.py:121 and main.py:969): the ids
\* of the label rows of a project.
get_labels_by_project(p) == {i \in 1..Len(labels) : labels[i].project = p}

\* The new row takes the place of the last row of the table.
insert_one_frame_replacing(v, p, i) ==
    IF frames = <<>>
    THEN <<[video |-> v, project |-> p, url |-> <<v, i>>, human_reviewed |-> FALSE]>>
    ELSE [frames EXCEPT ![Len(frames)] = [video |-> v, project |-> p, url |-> <<v, i>>,
                                          human_reviewed |-> FALSE]]

\* insert_one_frame (called at main.py:237 and main.py:260): one row, one
\* commit; returns the inserted row.
insert_one_frame(v, p, i) == Append(frames, [video |-> v, project |-> p, url |-> <<v, i>>,
                                             human_reviewed |-> FALSE])

\* crud.py:122-137 insert_boxes: the comprehension at line 134 iterates
\* over db_boxes, the local it is about to assign, so the call raises
\* UnboundLocalError before any row is built, whatever the list holds
\* (the empty list included). No row is added and nothing is committed.
insert_boxes(rows) == [ok |-> FALSE, rows |-> boxes]

FrameIdsOfVideo(v) == {i \in 1..Len(frames) : frames[i].video = v}

FrameCount(v) == Cardinality(FrameIdsOfVideo(v))

BoxIdsOfVideo(v) == {b \in 1..Len(boxes) : boxes[b].frame \in FrameIdsOfVideo(v)}

(***************************************************************************)
(* Initial state                                                           *)
(***************************************************************************)
\* The projects table of a record store in which two projects were created.
SeedProjects == <<[name |-> 1], [name |-> 2]>>

EmptyStore ==
    /\ videos = [v \in Videos |-> NoVideo]
    /\ frames = <<>>
    /\ labels = <<>>
    /\ boxes = <<>>
    /\ stored = {}

\* A record store that holds one preprocessed video of project p1: two
\* frames, one detected box on each, and the two labels of those boxes.
SeededStore ==
    /\ videos = [v \in Videos |->
                   IF v = SeedVideo
                   THEN [exists |-> TRUE, project |-> 1, shape |-> <<2, 1>>, status |-> "success"]
                   ELSE NoVideo]
    /\ frames = [i \in 1..2 |-> [video |-> SeedVideo, project |-> 1,
                                  url |-> <<SeedVideo, i - 1>>, human_reviewed |-> FALSE]]
    /\ labels = <<[name |-> "car", project |-> 1], [name |-> "dog", project |-> 1]>>
    /\ boxes = [b \in {1, 2} |-> [frame |-> b, label |-> b, geom |-> "g1", prediction |-> TRUE,
                                   features |-> IF b = 1 THEN "car" ELSE "dog"]]
    /\ stored = {<<SeedVideo, 0>>, <<SeedVideo, 1>>}

\* The same record store after a video without any sampled frame was
\* uploaded to project 1 as well: its job set the status to success and
\* inserted nothing.
SeededStoreEmptyVideo ==
    /\ videos = [v \in Videos |->
                   IF v = SeedVideo
                   THEN [exists |-> TRUE, project |-> 1, shape |-> <<2, 1>>, status |-> "success"]
                   ELSE [exists |-> TRUE, project |-> 1, shape |-> <<0, 1>>, status |-> "success"]]
    /\ frames = [i \in 1..2 |-> [video |-> SeedVideo, project |-> 1,
                                  url |-> <<SeedVideo, i - 1>>, human_reviewed |-> FALSE]]
    /\ labels = <<[name |-> "car", project |-> 1], [name |-> "dog", project |-> 1]>>
    /\ boxes = [b \in {1, 2} |-> [frame |-> b, label |-> b, geom |-> "g1", prediction |-> TRUE,
                                   features |-> IF b = 1 THEN "car" ELSE "dog"]]
    /\ stored = {<<SeedVideo, 0>>, <<SeedVideo, 1>>}

\* The record store outlives the process (main.py:36 creates only the
\* tables that are missing): it starts empty or seeded.
Init ==
    /\ azure \in BOOLEAN
    /\ projects = SeedProjects
    /\ EmptyStore \/ SeededStore
    /\ jobs = [j \in JobIds |-> IdleJob]
    /\ trainer = IdleTrainer
    /\ response = NoResponse

(***************************************************************************)
(* Validation of the ids a request carries                                 *)
(***************************************************************************)
\* A project id that uuid.UUID rejects, and a video id that it rejects.
MalformedProjectId == -1

MalformedVideoId == "malformed"

\* A well-formed video id that no row has.
MissingVideoId == "v9"

\* crud.py:33-34 get_project_by_id: the row, or None.
ProjectExists(pid) == pid \in 1..Len(projects)

\* crud.py:75-76 get_video_by_id: the row, or None.
VideoExists(vid) == vid \in Videos /\ videos[vid].exists

\* main.py:505-520 (and 343-358, 394-409, 425-440, 461-476, 929-944): the
\* id is parsed first (400), then looked up (404); 0 when the project is
\* found.
ProjectIdCheck(pid) ==
    IF pid = MalformedProjectId THEN 400 ELSE IF ~ProjectExists(pid) THEN 404 ELSE 0

\* main.py:691-706 (and 654-669, 785-800, 946-961): the same for a video id.
VideoIdCheck(vid) ==
    IF vid = MalformedVideoId THEN 400 ELSE IF ~VideoExists(vid) THEN 404 ELSE 0

(***************************************************************************)
(* Handlers that start a preprocessing job                                 *)
(***************************************************************************)
\* The job slot a newly scheduled background task takes.
HasFreeJob == \E j \in JobIds : jobs[j].pc = "idle"

FreeJob == CHOOSE j \in JobIds : jobs[j].pc = "idle" /\ \A k \in JobIds : jobs[k].pc = "idle" => j <= k

\* The task is run to its first frame before the handler goes on.
add_task_inline(v, p, kind) ==
    [jobs EXCEPT ![FreeJob] = [IdleJob EXCEPT !.pc = "loop", !.video = v,
                                              !.project = p, !.kind = kind,
                                              !.prior = videos[v].status]]

\* main.py:629-636 and main.py:759-766 background_tasks.add_task(
\* preprocess_video, contents, storage_location, video_id, project_id, db).
add_task(v, p, kind) ==
    [jobs EXCEPT ![FreeJob] = [IdleJob EXCEPT !.pc = "scheduled", !.video = v,
                                              !.project = p, !.kind = kind,
                                              !.prior = videos[v].status]]

\* Content types a client may declare for the file it uploads.
ContentTypes == {"video/mp4", "image/png"}

\* The duplicate-name test of main.py:522-533 left out.
UploadCheckNoDuplicate(v, p, ctype) ==
    IF ProjectIdCheck(p) # 0 THEN ProjectIdCheck(p)
    ELSE IF ctype # "video/mp4" THEN 400
    ELSE 0

\* main.py:505-544 the checks of an upload, in the order the handler makes
\* them: project id (400), project row (404), a video of this file name
\* (400), content type (400); 0 when the upload passes them all.
UploadCheck(v, p, ctype) ==
    IF ProjectIdCheck(p) # 0 THEN ProjectIdCheck(p)
    ELSE IF videos[v].exists THEN 400
    ELSE IF ctype # "video/mp4" THEN 400
    ELSE 0

\* main.py:498-644 upload_project_video. A rejected upload is answered at
\* once. Otherwise the file is saved (500 when the store raises), the video
\* row is created with no status, the job is scheduled and the request is
\* answered 202 with the new video's id.
upload_project_video(v, p, ctype, shape) ==
    /\ IF UploadCheck(v, p, ctype) # 0
       THEN /\ response' = [op |-> "upload", target |-> v, code |-> UploadCheck(v, p, ctype),
                            body |-> <<>>]
            /\ UNCHANGED <<videos, jobs>>
       ELSE \E saved \in BOOLEAN :
              IF saved
              THEN /\ HasFreeJob
                   /\ videos' = [videos EXCEPT ![v] = [exists |-> TRUE, project |-> p,
                                                       shape |-> shape, status |-> "unset"]]
                   /\ jobs' = add_task(v, p, "upload")
                   /\ response' = [op |-> "upload", target |-> v, code |-> 202, body |-> <<v>>]
              ELSE /\ response' = [op |-> "upload", target |-> v, code |-> 500, body |-> <<>>]
                   /\ UNCHANGED <<videos, jobs>>
    /\ UNCHANGED <<azure, projects, frames, labels, boxes, stored, trainer>>

\* The status is compared with a value no job ever writes.
AlreadyPreprocessedTypo(v) == videos[v].status = "succeeded"

\* main.py:708 the test that makes a restart of a preprocessed video a no-op.
AlreadyPreprocessed(v) == videos[v].status = "success"

\* main.py:687-771 restart_video_preprocess: the video id is checked (400,
\* 404); 200 and nothing else when the status is success; otherwise the
\* stored video is fetched (500 when that raises) and a job is scheduled,
\* 202.
restart_video_preprocess(v) ==
    /\ IF VideoIdCheck(v) # 0
       THEN /\ response' = [op |-> "restart", target |-> v, code |-> VideoIdCheck(v), body |-> <<>>]
            /\ UNCHANGED jobs
       ELSE IF AlreadyPreprocessed(v)
       THEN /\ response' = [op |-> "restart", target |-> v, code |-> 200, body |-> <<>>]
            /\ UNCHANGED jobs
       ELSE \E fetched \in BOOLEAN :
              IF fetched
              THEN /\ HasFreeJob
                   /\ jobs' = add_task(v, videos[v].project, "restart")
                   /\ response' = [op |-> "restart", target |-> v, code |-> 202, body |-> <<>>]
              ELSE /\ response' = [op |-> "restart", target |-> v, code |-> 500, body |-> <<>>]
                   /\ UNCHANGED jobs
    /\ UNCHANGED <<azure, projects, videos, frames, labels, boxes, stored, trainer>>

(***************************************************************************)
(* preprocess_video (main.py:172-270), one background task                 *)
(***************************************************************************)
\* The locals of a task that has ended are gone; what the run did is kept.
Ended(j, pc) == [jobs[j] EXCEPT !.pc = pc, !.det = {}, !.toInsert = {}, !.frame = NoFrame]

\* An exception nothing catches ends the task where it is raised.
Crash(j, why) == [jobs EXCEPT ![j] = [Ended(j, "crashed") EXCEPT !.err = why]]

\* main.py:734-735 and main.py:185 a restart with the remote store hands
\* the job a BytesIO object, which temp.write refuses (TypeError); an
\* upload (main.py:549) and a local restart (main.py:744-745) hand it bytes.
ContentsAreBytes(j) == ~(azure /\ jobs[j].kind = "restart")

\* The task starts without the status write of main.py:180.
JobStartSilent(j) ==
    /\ jobs[j].pc = "scheduled"
    /\ videos' = videos
    /\ jobs' = IF ContentsAreBytes(j)
               THEN [jobs EXCEPT ![j].pc = "loop", ![j].index = 0]
               ELSE Crash(j, "contents")
    /\ UNCHANGED <<azure, projects, frames, labels, boxes, stored, trainer, response>>

\* main.py:180-194 the status is set to in_progress, then the video bytes
\* are written to a temporary file and opened.
JobStart(j) ==
    /\ jobs[j].pc = "scheduled"
    /\ videos' = set_video_preprocessing_status(jobs[j].video, "in_progress")
    /\ jobs' = IF ContentsAreBytes(j)
               THEN [jobs EXCEPT ![j].pc = "loop", ![j].index = 0]
               ELSE Crash(j, "contents")
    /\ UNCHANGED <<azure, projects, frames, labels, boxes, stored, trainer, response>>

\* main.py:197 np.arange(0, num_frames, fps) with fps = 0 divides by its
\* step and raises.
ArangeRaises(shape) == shape[2] = 0

\* main.py:197 the exception of np.arange is not caught: the task ends
\* before its first turn, after the status write of main.py:180.
JobSampleRaises(j) ==
    /\ jobs[j].pc = "loop"
    /\ ArangeRaises(videos[jobs[j].video].shape)
    /\ jobs' = Crash(j, "arange")
    /\ UNCHANGED <<azure, projects, videos, frames, labels, boxes, stored, trainer, response>>

\* main.py:197 and main.py:270 the loop is exhausted: status success.
JobFinish(j) ==
    /\ jobs[j].pc = "loop"
    /\ ~ArangeRaises(videos[jobs[j].video].shape)
    /\ jobs[j].index >= SampleCount(videos[jobs[j].video].shape)
    /\ videos' = set_video_preprocessing_status(jobs[j].video, "success")
    /\ jobs' = [jobs EXCEPT ![j] = Ended(j, "done")]
    /\ UNCHANGED <<azure, projects, frames, labels, boxes, stored, trainer, response>>

\* The decoder is also asked for the frame of the turn after this one.
SampledAhead(j) ==
    jobs[j].sampled \o <<SampleIndex(videos[jobs[j].video].shape, jobs[j].index),
                         SampleIndex(videos[jobs[j].video].shape, jobs[j].index)
                            + videos[jobs[j].video].shape[2]>>

\* main.py:198-199 the source frame indices the job has asked the decoder
\* for, this turn's included.
Sampled(j) == Append(jobs[j].sampled, SampleIndex(videos[jobs[j].video].shape, jobs[j].index))

\* main.py:228-237 and main.py:251-260 the Frame row of the image just stored.
FrameInserted(j) ==
    /\ stored' = stored \cup {<<jobs[j].video, jobs[j].index>>}
    /\ frames' = insert_one_frame(jobs[j].video, jobs[j].project, jobs[j].index)
    /\ jobs' = [jobs EXCEPT ![j].pc = "detect", ![j].frame = Len(frames) + 1,
                            ![j].sampled = Sampled(j)]
    /\ UNCHANGED videos

\* main.py:204, 222, 248 the status write of a failure the code tests for.
FailedReturn(j) ==
    /\ videos' = set_video_preprocessing_status(jobs[j].video, "failed")
    /\ jobs' = [jobs EXCEPT ![j] = [Ended(j, "done") EXCEPT !.failedAt = jobs[j].index,
                                                           !.sampled = Sampled(j)]]
    /\ UNCHANGED <<frames, stored>>

\* main.py:226 blob_client.upload_blob(image_bytes) reports every failure
\* (the blob exists already, the store is unreachable) by raising; the
\* call is not inside a try, so the task ends there.
UploadRaised(j) ==
    /\ jobs' = [Crash(j, "storage") EXCEPT ![j].failedAt = jobs[j].index,
                                           ![j].sampled = Sampled(j)]
    /\ UNCHANGED <<videos, frames, stored>>

\* main.py:197-262 one sampled frame is read, stored and recorded.
\* A frame that cannot be read sets the status to failed and ends the job.
\* Remote store: imencode may report failure (status failed), upload_blob
\* raises on failure and when the blob name is taken (overwrite is off).
\* Local disk: imwrite reports failure by its result and overwrites.
JobStoreFrame(j) ==
    /\ jobs[j].pc = "loop"
    /\ ~ArangeRaises(videos[jobs[j].video].shape)
    /\ jobs[j].index < SampleCount(videos[jobs[j].video].shape)
    /\ \E hasFrames \in BOOLEAN, is_success \in BOOLEAN, uploaded \in BOOLEAN :
         IF ~hasFrames \/ ~is_success THEN FailedReturn(j)
         ELSE IF azure /\ (<<jobs[j].video, jobs[j].index>> \in stored \/ ~uploaded)
              THEN UploadRaised(j)
              ELSE FrameInserted(j)
    /\ UNCHANGED <<azure, projects, labels, boxes, trainer, response>>

\* main.py:100-114 the detection model runs on the frame, the distinct
\* class names are looked up one by one and the missing ones collected.
JobDetect(j) ==
    /\ jobs[j].pc = "detect"
    /\ \E det \in DetSets :
         LET missing == {n \in det : get_label_by_name_and_project(n, jobs[j].project) = 0}
         IN jobs' = [jobs EXCEPT ![j].det = det, ![j].toInsert = missing,
                                 ![j].detected = IF det = {} THEN @ ELSE @ + 1,
                                 ![j].pc = IF missing = {} THEN "boxes" ELSE "labels"]
    /\ UNCHANGED <<azure, projects, videos, frames, labels, boxes, stored, trainer, response>>

\* main.py:116-117 the missing names are inserted in one batch; an
\* IntegrityError is not caught and ends the task.
JobInsertLabels(j) ==
    /\ jobs[j].pc = "labels"
    /\ LET r == insert_labels(SeqOfSet(jobs[j].toInsert), jobs[j].project)
       IN /\ labels' = r.rows
          /\ jobs' = IF r.ok THEN [jobs EXCEPT ![j].pc = "boxes"] ELSE Crash(j, "labels")
    /\ UNCHANGED <<azure, projects, videos, frames, boxes, stored, trainer, response>>

\* The boxes are built without the flag that marks them as predictions.
DetectedBoxesUnflagged(j) ==
    LET names == SeqOfSet(jobs[j].det)
    IN [k \in 1..Len(names) |->
           [frame |-> jobs[j].frame,
            label |-> get_label_by_name_and_project(names[k], jobs[j].project),
            geom |-> "g1", prediction |-> FALSE, features |-> names[k]]]

\* main.py:119-161 one box per detection, tied to the new frame, labelled
\* with the id the project's label table gives the class name.
DetectedBoxes(j) ==
    LET names == SeqOfSet(jobs[j].det)
    IN [k \in 1..Len(names) |->
           [frame |-> jobs[j].frame,
            label |-> get_label_by_name_and_project(names[k], jobs[j].project),
            geom |-> "g1", prediction |-> TRUE, features |-> names[k]]]

\* main.py:119-165 and main.py:264-267 the boxes of the frame are inserted
\* and the loop moves to the next sampled frame; an exception raised by
\* insert_boxes is not caught and ends the task.
JobInsertBoxes(j) ==
    /\ jobs[j].pc = "boxes"
    /\ LET r == insert_boxes(DetectedBoxes(j))
       IN /\ boxes' = r.rows
          /\ jobs' = IF r.ok
                     THEN [jobs EXCEPT ![j].pc = "loop", ![j].index = jobs[j].index + 1,
                                       ![j].det = {}, ![j].toInsert = {}, ![j].frame = NoFrame]
                     ELSE Crash(j, "boxes")
    /\ UNCHANGED <<azure, projects, videos, frames, labels, stored, trainer, response>>

(***************************************************************************)
(* Explicit label creation                                                 *)
(***************************************************************************)
\* Lists of names a client posts.
ClientLabelLists == {<<"car">>, <<"car", "car">>}

\* main.py:423-447 create_project_labels: the project id is checked (400,
\* 404); the names are inserted as given, with no lookup first; an
\* IntegrityError is not caught (the request ends in a 500).
create_project_labels(p, names) ==
    /\ IF ProjectIdCheck(p) # 0
       THEN /\ response' = [op |-> "labels", target |-> p, code |-> ProjectIdCheck(p), body |-> <<>>]
            /\ UNCHANGED labels
       ELSE LET r == insert_labels(names, p)
            IN /\ labels' = r.rows
               /\ response' = [op |-> "labels", target |-> p, code |-> IF r.ok THEN 200 ELSE 500,
                               body |-> <<>>]
    /\ UNCHANGED <<azure, projects, videos, frames, boxes, stored, jobs, trainer>>

(***************************************************************************)
(* Corrections and the relabeling trainer                                  *)
(***************************************************************************)
\* update_boxes (called at main.py:964, 1018 and 1031): every submitted box
\* overwrites the frame, label, rectangle and prediction flag of the row
\* with its id; the stored feature vector is not part of a submitted box.
update_boxes(rows, upd) ==
    [b \in 1..Len(rows) |->
        IF \E k \in 1..Len(upd) : upd[k].id = b
        THEN LET u == upd[CHOOSE k \in 1..Len(upd) :
                            upd[k].id = b /\ \A m \in 1..Len(upd) : upd[m].id = b => m <= k]
             IN [rows[b] EXCEPT !.frame = u.frame, !.label = u.label, !.geom = u.geom,
                                !.prediction = u.prediction]
        ELSE rows[b]]

\* The lists of corrected boxes a client submits: one box it fetched
\* before, with a label of the store, a rectangle and a prediction flag.
ClientBoxLists ==
    {<<[id |-> b, frame |-> boxes[b].frame, label |-> l, geom |-> g, prediction |-> pr]>> :
        b \in 1..Len(boxes), l \in 1..Len(labels), g \in Geometries, pr \in BOOLEAN}

\* get_box_vectors_and_labels_by_video_id (called at main.py:975): the
\* boxes of the video's frames, each with its label's name, in id order.
RECURSIVE SortedSeq(_)
SortedSeq(S) == IF S = {} THEN <<>>
                ELSE LET x == CHOOSE y \in S : \A z \in S : y <= z
                     IN <<x>> \o SortedSeq(S \ {x})

get_box_vectors_and_labels_by_video_id(v) ==
    LET ids == SortedSeq(BoxIdsOfVideo(v))
    IN [k \in 1..Len(ids) |-> [id |-> ids[k], box |-> boxes[ids[k]],
                               name |-> labels[boxes[ids[k]].label].name]]

\* main.py:969-971 label2id and unique_labels of the requested project.
UniqueLabels(p) == {labels[i].name : i \in get_labels_by_project(p)}

Label2Id(p) == [n \in UniqueLabels(p) |-> get_label_by_name_and_project(n, p)]

\* model_training.py:66-78 ClassifierManager.__init__ (with DetectionData,
\* lines 31-46): line 43 looks every box label up in the project's names
\* (KeyError when one is missing) and line 74 reads the first training
\* example (IndexError when there is none).
ClassifierBuilt(all_boxes, unique_labels) ==
    /\ \A k \in 1..Len(all_boxes) : all_boxes[k].name \in unique_labels
    /\ Len(all_boxes) > 0

\* Only the confirmed boxes are taken as training examples.
TrainingSetConfirmed(all_boxes) ==
    LET taken == SelectSeq(all_boxes, LAMBDA r : r.box.prediction = FALSE)
    IN [k \in 1..Len(taken) |-> <<taken[k].box.features, taken[k].name>>]

\* main.py:976-981 box_vectors and box_labels: the feature vector and the
\* label name of every row read, handed to ClassifierManager (main.py:988).
TrainingSet(all_boxes) ==
    [k \in 1..Len(all_boxes) |-> <<all_boxes[k].box.features, all_boxes[k].name>>]

\* Every box is taken for unreviewed (the test of main.py:983 left out).
UnreviewedAll(all_boxes) == all_boxes

\* The loop of main.py:982-984 passes over the first box it would take.
UnreviewedButFirst(all_boxes) ==
    LET taken == SelectSeq(all_boxes, LAMBDA r : r.box.prediction = TRUE)
    IN IF taken = <<>> THEN taken ELSE Tail(taken)

\* The test of main.py:983 inverted: the confirmed boxes are taken.
UnreviewedConfirmed(all_boxes) == SelectSeq(all_boxes, LAMBDA r : r.box.prediction = FALSE)

\* main.py:979-984 the boxes whose prediction flag is set, as read.
Unreviewed(all_boxes) == SelectSeq(all_boxes, LAMBDA r : r.box.prediction = TRUE)

\* Every box of the list is a row of the table.
KnownBoxes(upd) == \A k \in 1..Len(upd) : upd[k].id \in 1..Len(boxes)

\* main.py:922-966 the project id and then the video id are checked (400,
\* 404); then the submitted corrections are saved.
UBBSave(p, v, upd) ==
    /\ trainer.pc = "idle"
    /\ KnownBoxes(upd)
    /\ IF ProjectIdCheck(p) # 0
       THEN /\ response' = [op |-> "correct", target |-> p, code |-> ProjectIdCheck(p), body |-> <<>>]
            /\ UNCHANGED <<boxes, trainer>>
       ELSE IF VideoIdCheck(v) # 0
            THEN /\ response' = [op |-> "correct", target |-> v, code |-> VideoIdCheck(v), body |-> <<>>]
                 /\ UNCHANGED <<boxes, trainer>>
            ELSE /\ boxes' = update_boxes(boxes, upd)
                 /\ trainer' = [IdleTrainer EXCEPT !.pc = "saved", !.project = p, !.video = v]
                 /\ UNCHANGED response
    /\ UNCHANGED <<azure, projects, videos, frames, labels, stored, jobs>>

\* main.py:968-991 the project's labels and the video's boxes are read and
\* a classifier is built and fitted on all of them. An exception raised
\* while building it ends the request (500). With no box left to predict
\* the request ends here (main.py:993, 1023).
UBBTrain ==
    /\ trainer.pc = "saved"
    /\ LET all_boxes == get_box_vectors_and_labels_by_video_id(trainer.video)
           unique_labels == UniqueLabels(trainer.project)
           unreviewed_boxes == Unreviewed(all_boxes)
       IN IF ~ClassifierBuilt(all_boxes, unique_labels)
          THEN /\ trainer' = IdleTrainer
               /\ response' = [op |-> "correct", target |-> trainer.video, code |-> 500, body |-> <<>>]
          ELSE IF Len(unreviewed_boxes) = 0
               THEN /\ trainer' = IdleTrainer
                    /\ response' = [op |-> "correct", target |-> trainer.video, code |-> 200, body |-> <<>>]
               ELSE /\ trainer' = [trainer EXCEPT !.pc = "fitted",
                                                  !.label2id = Label2Id(trainer.project),
                                                  !.unreviewed = unreviewed_boxes,
                                                  !.train = TrainingSet(all_boxes),
                                                  !.confirmed =
                                                      {all_boxes[k].id : k \in {m \in 1..Len(all_boxes) :
                                                          all_boxes[m].box.prediction = FALSE}}]
                    /\ UNCHANGED response
    /\ UNCHANGED <<azure, projects, videos, frames, labels, boxes, stored, jobs>>

\* main.py:998-1015 one rewritten box per unreviewed box: the rectangle,
\* frame and id the trainer read, the predicted label, prediction True.
NewPredictedBoxes(unreviewed_boxes, new_predictions, label2id) ==
    [k \in 1..Len(unreviewed_boxes) |->
        [id |-> unreviewed_boxes[k].id,
         frame |-> unreviewed_boxes[k].box.frame,
         geom |-> unreviewed_boxes[k].box.geom,
         label |-> label2id[new_predictions[k]],
         prediction |-> TRUE]]

\* main.py:993-1023 the classifier labels every unreviewed box with one of
\* the project's names (model_training.py:99-113: the arg-max class of the
\* box's feature vector) and the rewritten boxes are saved.
UBBWriteBack ==
    /\ trainer.pc = "fitted"
    /\ \E classify \in [{trainer.unreviewed[k].box.features : k \in 1..Len(trainer.unreviewed)}
                           -> DOMAIN trainer.label2id] :
         LET new_predictions == [k \in 1..Len(trainer.unreviewed) |->
                                    classify[trainer.unreviewed[k].box.features]]
         IN boxes' = update_boxes(boxes, NewPredictedBoxes(trainer.unreviewed, new_predictions,
                                                          trainer.label2id))
    /\ trainer' = IdleTrainer
    /\ response' = [op |-> "correct", target |-> trainer.video, code |-> 200, body |-> <<>>]
    /\ UNCHANGED <<azure, projects, videos, frames, labels, stored, jobs>>

\* main.py:1026-1034 update_boxes_without_inference.
update_boxes_without_inference(upd) ==
    /\ boxes' = update_boxes(boxes, upd)
    /\ response' = [op |-> "boxes", target |-> "none", code |-> 200, body |-> <<>>]
    /\ UNCHANGED <<azure, projects, videos, frames, labels, stored, jobs, trainer>>

(***************************************************************************)
(* Frame updates                                                           *)
(***************************************************************************)
\* update_frames of crud (called at main.py:911): every submitted frame
\* overwrites the reviewed flag, project, video and URL of the row with its
\* id.
crud_update_frames(rows, upd) ==
    [f \in 1..Len(rows) |->
        IF \E k \in 1..Len(upd) : upd[k].id = f
        THEN LET u == upd[CHOOSE k \in 1..Len(upd) :
                            upd[k].id = f /\ \A m \in 1..Len(upd) : upd[m].id = f => m <= k]
             IN [rows[f] EXCEPT !.human_reviewed = u.human_reviewed, !.project = u.project,
                                !.video = u.video, !.url = u.url]
        ELSE rows[f]]

\* The lists of frames a client submits: one frame it fetched before, with
\* a reviewed flag.
ClientFrameLists ==
    {<<[id |-> f, project |-> frames[f].project, video |-> frames[f].video,
        url |-> frames[f].url, human_reviewed |-> h]>> : f \in 1..Len(frames), h \in BOOLEAN}

\* The handler also clears the status of the videos of the frames.
update_frames_and_status(upd) ==
    /\ frames' = crud_update_frames(frames, upd)
    /\ videos' = [v \in Videos |->
                     IF \E k \in 1..Len(upd) : upd[k].video = v
                     THEN [videos[v] EXCEPT !.status = "unset"] ELSE videos[v]]
    /\ response' = [op |-> "frames", target |-> "none", code |-> 200, body |-> <<>>]
    /\ UNCHANGED <<azure, projects, labels, boxes, stored, jobs, trainer>>

\* main.py:905-914 update_frames.
update_frames(upd) ==
    /\ frames' = crud_update_frames(frames, upd)
    /\ videos' = videos
    /\ response' = [op |-> "frames", target |-> "none", code |-> 200, body |-> <<>>]
    /\ UNCHANGED <<azure, projects, labels, boxes, stored, jobs, trainer>>

(***************************************************************************)
(* The other endpoints that take a project id or a video id                *)
(***************************************************************************)
\* The handler answers and changes no record and no job.
Answer(op, target, code) ==
    /\ response' = [op |-> op, target |-> target, code |-> code, body |-> <<>>]
    /\ UNCHANGED <<azure, projects, videos, frames, labels, boxes, stored, jobs, trainer>>

\* main.py:341-371 get_project.
get_project(p) ==
    Answer("get_project", p, IF ProjectIdCheck(p) # 0 THEN ProjectIdCheck(p) ELSE 200)

\* main.py:374-381 rename_project: the id is not looked at; the body is a
\* ProjectCreate object and project["name"] raises TypeError (500).
rename_project(p) == Answer("rename_project", p, 500)

\* main.py:384-390 delete_project: the id is not looked at, nothing is
\* deleted, 200.
delete_project(p) == Answer("delete_project", p, 200)

\* main.py:393-420 get_project_labels.
get_project_labels(p) ==
    Answer("get_project_labels", p, IF ProjectIdCheck(p) # 0 THEN ProjectIdCheck(p) ELSE 200)

\* main.py:450-456 get_project_labeled_images: the id is not looked at, 200.
get_project_labeled_images(p) == Answer("get_project_labeled_images", p, 200)

\* main.py:459-495 get_project_videos.
get_project_videos(p) ==
    Answer("get_project_videos", p, IF ProjectIdCheck(p) # 0 THEN ProjectIdCheck(p) ELSE 200)

\* main.py:652-684 get_video.
get_video(v) ==
    Answer("get_video", v, IF VideoIdCheck(v) # 0 THEN VideoIdCheck(v) ELSE 200)

\* main.py:774-780 delete_video: the id is not looked at, nothing is
\* deleted, 200.
delete_video(v) == Answer("delete_video", v, 200)

\* main.py:783-828 get_video_frames.
get_video_frames(v) ==
    Answer("get_video_frames", v, IF VideoIdCheck(v) # 0 THEN VideoIdCheck(v) ELSE 200)

(***************************************************************************)
(* Projects                                                                *)
(***************************************************************************)
\* Most projects created in a run of SpecProjects.
MaxProjects == 101

\* crud.py:17 the default of get_projects' parameter limit.
DefaultLimit == 100

\* crud.py:17-18 get_projects: db.query(Project).offset(skip).limit(limit)
\* over the rows in table order.
get_projects(skip, limit) ==
    SubSeq(projects, skip + 1, IF skip + limit < Len(projects) THEN skip + limit ELSE Len(projects))

\* crud.py:37-38 get_project_by_name(...).first() finds a row.
get_project_by_name(name) == \E i \in 1..Len(projects) : projects[i].name = name

\* main.py:277-296 get_all_projects: get_projects is called with its
\* default skip and limit, and one entry per returned row is sent back.
get_all_projects ==
    /\ LET returned_projects == get_projects(0, DefaultLimit)
       IN response' = [op |-> "get_all_projects", target |-> "none", code |-> 200,
                       body |-> [i \in 1..Len(returned_projects) |-> returned_projects[i].name]]
    /\ UNCHANGED <<azure, projects, videos, frames, labels, boxes, stored, jobs, trainer>>

\* main.py:299-338 create_project: a name that exists is refused (400);
\* otherwise the row is inserted, the project's container or directory is
\* created and the new project is sent back (200).
create_project(name) ==
    /\ IF get_project_by_name(name)
       THEN /\ response' = [op |-> "create_project", target |-> name, code |-> 400, body |-> <<>>]
            /\ UNCHANGED projects
       ELSE /\ Len(projects) < MaxProjects
            /\ projects' = Append(projects, [name |-> name])
            /\ response' = [op |-> "create_project", target |-> name, code |-> 200, body |-> <<name>>]
    /\ UNCHANGED <<azure, videos, frames, labels, boxes, stored, jobs, trainer>>

(***************************************************************************)
(* Specification                                                           *)
(***************************************************************************)
Next ==
    \/ \E v \in UploadVideos, p \in Projects, shape \in VideoShapes :
          upload_project_video(v, p, "video/mp4", shape)
    \/ \E v \in Videos : restart_video_preprocess(v)
    \/ \E j \in JobIds : JobStart(j)
    \/ \E j \in JobIds : JobFinish(j)
    \/ \E j \in JobIds : JobStoreFrame(j)
    \/ \E j \in JobIds : JobDetect(j)
    \/ \E j \in JobIds : JobInsertLabels(j)
    \/ \E j \in JobIds : JobInsertBoxes(j)
    \/ \E p \in Projects, names \in ClientLabelLists : create_project_labels(p, names)

Spec == Init /\ [][Next]_vars

\* The correction handlers over a seeded record store.
InitSeeded ==
    /\ azure = FALSE
    /\ projects = SeedProjects
    /\ SeededStore \/ SeededStoreEmptyVideo
    /\ jobs = [j \in JobIds |-> IdleJob]
    /\ trainer = IdleTrainer
    /\ response = NoResponse

NextTrainer ==
    \/ \E p \in Projects, v \in Videos, upd \in ClientBoxLists : UBBSave(p, v, upd)
    \/ UBBTrain
    \/ UBBWriteBack
    \/ \E upd \in ClientBoxLists : update_boxes_without_inference(upd)

SpecTrainer == InitSeeded /\ [][NextTrainer]_vars

\* The request handlers that take a project id or a video id, asked with
\* ids of every kind over a seeded record store; the steps of the
\* scheduled jobs are left out.
MissingProjectId == Len(SeedProjects) + 1

ProjectIdsAsked == Projects \cup {MissingProjectId, MalformedProjectId}

VideoIdsAsked == Videos \cup {MissingVideoId, MalformedVideoId}

\* A correction request that submits no box.
NoCorrections == <<>>

InitRequests ==
    /\ azure = FALSE
    /\ projects = SeedProjects
    /\ SeededStore
    /\ jobs = [j \in JobIds |-> IdleJob]
    /\ trainer = IdleTrainer
    /\ response = NoResponse

NextRequests ==
    \/ \E v \in Videos, p \in ProjectIdsAsked, ctype \in ContentTypes, shape \in VideoShapes :
          upload_project_video(v, p, ctype, shape)
    \/ \E v \in VideoIdsAsked : restart_video_preprocess(v)
    \/ \E p \in ProjectIdsAsked, names \in ClientLabelLists : create_project_labels(p, names)
    \/ \E p \in ProjectIdsAsked : get_project(p)
    \/ \E p \in ProjectIdsAsked : rename_project(p)
    \/ \E p \in ProjectIdsAsked : delete_project(p)
    \/ \E p \in ProjectIdsAsked : get_project_labels(p)
    \/ \E p \in ProjectIdsAsked : get_project_labeled_images(p)
    \/ \E p \in ProjectIdsAsked : get_project_videos(p)
    \/ \E v \in VideoIdsAsked : get_video(v)
    \/ \E v \in VideoIdsAsked : delete_video(v)
    \/ \E v \in VideoIdsAsked : get_video_frames(v)
    \/ \E p \in ProjectIdsAsked, v \in VideoIdsAsked : UBBSave(p, v, NoCorrections)
    \/ UBBTrain
    \/ UBBWriteBack

SpecRequests == InitRequests /\ [][NextRequests]_vars

\* The projects table alone, from an empty database: projects are created
\* under a name that exists or under the next new name, and listed.
InitProjects ==
    /\ azure = FALSE
    /\ projects = <<>>
    /\ EmptyStore
    /\ jobs = [j \in JobIds |-> IdleJob]
    /\ trainer = IdleTrainer
    /\ response = NoResponse

NextProjects ==
    \/ \E name \in 1..(Len(projects) + 1) : create_project(name)
    \/ get_all_projects

SpecProjects == InitProjects /\ [][NextProjects]_vars

\* The handlers that are not part of preprocessing, over a seeded record
\* store: corrections, frame updates, label creation and reads.
NextEdits ==
    \/ \E p \in Projects, v \in Videos, upd \in ClientBoxLists : UBBSave(p, v, upd)
    \/ UBBTrain
    \/ UBBWriteBack
    \/ \E upd \in ClientBoxLists : update_boxes_without_inference(upd)
    \/ \E upd \in ClientFrameLists : update_frames(upd)
    \/ \E p \in Projects, names \in ClientLabelLists : create_project_labels(p, names)
    \/ get_all_projects
    \/ \E p \in Projects : get_project(p)
    \/ \E p \in Projects : get_project_labels(p)
    \/ \E p \in Projects : get_project_videos(p)
    \/ \E v \in Videos : get_video(v)
    \/ \E v \in Videos : get_video_frames(v)

SpecEdits == InitSeeded /\ [][NextEdits]_vars

\* The jobs of a video one at a time: a restart is asked for only when
\* every job scheduled for the video before has ended.
NoJobPending(v) == \A j \in JobIds : jobs[j].video = v => jobs[j].pc \in {"done", "crashed"}

NextOneJob ==
    \/ \E v \in UploadVideos, p \in Projects, shape \in VideoShapes :
          upload_project_video(v, p, "video/mp4", shape)
    \/ \E v \in Videos : NoJobPending(v) /\ restart_video_preprocess(v)
    \/ \E j \in JobIds : JobStart(j)
    \/ \E j \in JobIds : JobFinish(j)
    \/ \E j \in JobIds : JobStoreFrame(j)
    \/ \E j \in JobIds : JobDetect(j)
    \/ \E j \in JobIds : JobInsertLabels(j)
    \/ \E j \in JobIds : JobInsertBoxes(j)
    \/ \E p \in Projects, names \in ClientLabelLists : create_project_labels(p, names)

SpecOneJob == Init /\ [][NextOneJob]_vars

\* Uploads and restarts of videos the decoder cannot open: the frame count
\* it reports (main.py:188) is 0, or the rate it reports (main.py:189) is 0.
UndecodableShapes == {<<0, 0>>, <<0, 1>>, <<3, 0>>}

NextDecode ==
    \/ \E v \in UploadVideos, p \in Projects, shape \in UndecodableShapes :
          upload_project_video(v, p, "video/mp4", shape)
    \/ \E v \in Videos : restart_video_preprocess(v)
    \/ \E j \in JobIds : JobStart(j)
    \/ \E j \in JobIds : JobSampleRaises(j)
    \/ \E j \in JobIds : JobFinish(j)

SpecDecode == Init /\ [][NextDecode]_vars

\* The sampling schedule alone: a job that has started on a video of any
\* frame count and rate, and the turns of its loop with the body (storage,
\* detection, inserts) left out.
InitSampling ==
    /\ azure = FALSE
    /\ projects = SeedProjects
    /\ \E shape \in SamplingShapes :
          videos = [v \in Videos |->
                      IF v \in UploadVideos
                      THEN [exists |-> TRUE, project |-> 1, shape |-> shape, status |-> "in_progress"]
                      ELSE NoVideo]
    /\ frames = <<>> /\ labels = <<>> /\ boxes = <<>> /\ stored = {}
    /\ jobs = [j \in JobIds |->
                 IF j = 1
                 THEN [IdleJob EXCEPT !.pc = "loop", !.video = CHOOSE v \in UploadVideos : TRUE,
                                      !.project = 1, !.kind = "upload"]
                 ELSE IdleJob]
    /\ trainer = IdleTrainer
    /\ response = NoResponse

\* main.py:197-199 and main.py:267 one turn of the loop in which nothing
\* fails: the decoder is moved to the turn's source frame index.
SamplerNext(j) ==
    /\ jobs[j].pc = "loop"
    /\ jobs[j].index < SampleCount(videos[jobs[j].video].shape)
    /\ jobs' = [jobs EXCEPT ![j].sampled = Sampled(j), ![j].index = jobs[j].index + 1]
    /\ UNCHANGED <<azure, projects, videos, frames, labels, boxes, stored, trainer, response>>

NextSampling ==
    \/ \E j \in JobIds : SamplerNext(j)
    \/ \E j \in JobIds : JobFinish(j)

SpecSampling == InitSampling /\ [][NextSampling]_vars

(***************************************************************************)
(* Properties                                                              *)
(***************************************************************************)
JobEnded(j) == jobs[j].pc \in {"done", "crashed"}

JobActive(j) == jobs[j].pc \in {"loop", "detect", "labels", "boxes"}

\* The job is the only one ever scheduled for its video.
OnlyJobOfVideo(j) == \A k \in JobIds : k # j => jobs[k].video # jobs[j].video

\* C1: a first preprocessing run that meets no decode, encode or storage
\* failure ends with status success and as many Frame rows as the video has
\* sampled frames; one whose first failure is at frame k ends with status
\* failed and exactly k Frame rows.
C1_FirstRunOutcome ==
    \A j \in JobIds :
        (jobs[j].kind = "upload" /\ JobEnded(j) /\ OnlyJobOfVideo(j)) =>
            LET v == jobs[j].video
            IN IF jobs[j].failedAt = -1
               THEN videos[v].status = "success" /\ FrameCount(v) = SampleCount(videos[v].shape)
               ELSE videos[v].status = "failed" /\ FrameCount(v) = jobs[j].failedAt

\* C2: restart_video_preprocess on a video whose status is success reports
\* success (200), schedules no job and leaves the status and the Frame,
\* BoundingBox and Label rows as they were.
C2_RestartOfSuccessIsNoOp ==
    [][\A v \in Videos :
          (videos[v].exists /\ videos[v].status = "success" /\ restart_video_preprocess(v)) =>
              /\ response'.code = 200
              /\ UNCHANGED <<videos, frames, boxes, labels, jobs, stored>>]_vars

\* A restart of a successfully preprocessed video has been answered.
C2_Witness ==
    /\ response.op = "restart" /\ response.code = 200
    /\ videos[response.target].status = "success"

\* C3: when the re-run of a video restarted from status failed has ended
\* and met no failure reading the video or decoding, encoding or storing a
\* frame, the video has as many Frame rows as a fresh failure-free run
\* gives it.
C3_RetryFrameCount ==
    \A j \in JobIds :
        (jobs[j].kind = "restart" /\ jobs[j].prior = "failed" /\ JobEnded(j)
            /\ jobs[j].failedAt = -1 /\ jobs[j].err # "contents") =>
                FrameCount(jobs[j].video) = SampleCount(videos[jobs[j].video].shape)

\* C4: no two preprocess_video runs of the same video are active together.
C4_OneActiveJobPerVideo ==
    \A j, k \in JobIds :
        (j # k /\ JobActive(j) /\ JobActive(k)) => jobs[j].video # jobs[k].video

\* C5: a decode, encode or storage-write failure on a frame ends the job
\* with the status set to failed.
C5_FailureSetsFailed ==
    \A j \in JobIds :
        (JobEnded(j) /\ jobs[j].failedAt # -1 /\ OnlyJobOfVideo(j)) =>
            videos[jobs[j].video].status = "failed"

\* C6: once every job started for a video has stopped, the video's status
\* is success or failed: no error inside a job leaves it at in_progress.
C6_StoppedJobsLeaveTerminalStatus ==
    \A v \in Videos :
        ((\E j \in JobIds : jobs[j].video = v /\ JobEnded(j))
            /\ (\A j \in JobIds : jobs[j].video = v => JobEnded(j))) =>
                videos[v].status \in {"success", "failed"}

NoRepetition(names) == \A i, k \in 1..Len(names) : names[i] = names[k] => i = k

\* Every name of the list has a row in the project in the table after the step.
RowsPresent(p, names) ==
    \A k \in 1..Len(names) :
        \E i \in 1..Len(labels') : labels'[i].name = names[k] /\ labels'[i].project = p

\* C7: label rows are unique per (project, name), and an insert of a name
\* into a project, by a job or by explicit creation, leaves a row of that
\* name in that project, whatever other projects hold.
C7_LabelsUniquePerProject ==
    [][/\ \A i, k \in 1..Len(labels') :
             (labels'[i].name = labels'[k].name /\ labels'[i].project = labels'[k].project) => i = k
       /\ \A p \in Projects, names \in ClientLabelLists :
             (NoRepetition(names) /\ create_project_labels(p, names)) => RowsPresent(p, names)
       /\ \A j \in JobIds :
             JobInsertLabels(j) => RowsPresent(jobs[j].project, SeqOfSet(jobs[j].toInsert))]_vars

\* C8: a job whose missing name was inserted for the same project by
\* another caller before its own insert does not fail: one row of the
\* name results and the job goes on.
C8_LabelRaceLoserContinues ==
    [][\A j \in JobIds :
          (JobInsertLabels(j)
             /\ \E n \in jobs[j].toInsert : get_label_by_name_and_project(n, jobs[j].project) # 0) =>
                 /\ jobs'[j].pc = "boxes"
                 /\ RowsPresent(jobs[j].project, SeqOfSet(jobs[j].toInsert))]_vars

\* The step in which the request in flight saves its predictions and ends.
WriteBackStep == trainer.pc = "fitted" /\ trainer'.pc = "idle"

\* C9: when update_bounding_boxes completes, the trainer has left every
\* box whose prediction flag is false (when it read the boxes, and when it
\* has written) as it was, and every box it read as predicted, like every
\* box it has changed, is a predicted box labelled with a label of the
\* project.
C9_TrainerKeepsConfirmedLabels ==
    [][WriteBackStep =>
          \A b \in BoxIdsOfVideo(trainer.video) :
              /\ b \in trainer.confirmed => boxes'[b] = boxes[b]
              /\ boxes'[b].prediction = FALSE => boxes'[b].label = boxes[b].label
              /\ (boxes'[b] # boxes[b]
                    \/ \E k \in 1..Len(trainer.unreviewed) : trainer.unreviewed[k].id = b) =>
                    /\ boxes'[b].prediction = TRUE
                    /\ boxes'[b].label \in get_labels_by_project(trainer.project)]_vars

\* A correction request has completed on a video that holds a confirmed
\* box and a predicted box whose label is not the detected one.
C9_Witness ==
    /\ response.op = "correct" /\ response.code = 200 /\ trainer.pc = "idle"
    /\ \E b \in BoxIdsOfVideo(response.target) : boxes[b].prediction = FALSE
    /\ \E b \in BoxIdsOfVideo(response.target) :
          boxes[b].prediction = TRUE /\ labels[boxes[b].label].name # boxes[b].features

\* C10: the trainer's write-back changes nothing but the label of a box,
\* and only of a box whose prediction flag is true.
C10_WriteBackChangesLabelOnly ==
    [][WriteBackStep =>
          \A b \in 1..Len(boxes) :
              /\ boxes'[b] = [boxes[b] EXCEPT !.label = boxes'[b].label]
              /\ boxes'[b] # boxes[b] => boxes[b].prediction = TRUE]_vars

\* The step in which the request in flight has read the labels and boxes
\* and built (or failed to build) its classifier.
TrainStep == trainer.pc = "saved" /\ trainer'.pc # "saved"

\* The training set of a request: no box in the video, or fewer than two
\* label names in the project.
Degenerate(p, v) ==
    \/ Len(get_box_vectors_and_labels_by_video_id(v)) = 0
    \/ Cardinality(UniqueLabels(p)) < 2

\* C11: when the training set is degenerate (for a video of the requested
\* project), update_bounding_boxes trains nothing, re-predicts nothing and
\* answers 200.
C11_DegenerateTrainingIsNoOp ==
    [][(TrainStep /\ videos[trainer.video].project = trainer.project
          /\ Degenerate(trainer.project, trainer.video)) =>
              /\ trainer'.pc = "idle"
              /\ response'.code = 200
              /\ boxes' = boxes]_vars

AllConfirmed(v) == \A b \in BoxIdsOfVideo(v) : boxes[b].prediction = FALSE

\* C12: when every box of the video has prediction false as the trainer
\* reads them, the request ends without writing any box row.
C12_NoWriteWhenAllConfirmed ==
    [][(TrainStep /\ AllConfirmed(trainer.video)) =>
          /\ boxes' = boxes
          /\ trainer'.pc = "idle"]_vars

\* A correction request on a video that has boxes, all of them confirmed,
\* has been answered.
C12_Witness ==
    /\ response.op = "correct" /\ response.code = 200 /\ trainer.pc = "idle"
    /\ response.target \in Videos
    /\ BoxIdsOfVideo(response.target) # {}
    /\ AllConfirmed(response.target)

\* The job has run through its whole sampling schedule.
SampledAll(j) == jobs[j].pc = "done" /\ jobs[j].failedAt = -1

C14_ValidUploadAcceptedAndDecoupled ==
    [][\A v \in UploadVideos, p \in Projects, shape \in VideoShapes :
          (ProjectExists(p) /\ ~videos[v].exists
             /\ upload_project_video(v, p, "video/mp4", shape) /\ response'.code # 500) =>
                /\ response'.code = 202 /\ response'.body = <<v>>
                /\ videos' = [videos EXCEPT ![v] = [exists |-> TRUE, project |-> p,
                                                    shape |-> shape, status |-> "unset"]]
                /\ \E j \in JobIds :
                      /\ jobs[j].pc = "idle"
                      /\ jobs'[j].pc = "scheduled" /\ jobs'[j].video = v /\ jobs'[j].project = p
                      /\ \A k \in JobIds \ {j} : jobs'[k] = jobs[k]
                /\ UNCHANGED <<frames, boxes, labels, stored>>]_vars

\* An upload has been answered 202 and its job has not started.
C14_Witness ==
    /\ response.op = "upload" /\ response.code = 202
    /\ videos[response.target].status = "unset"
    /\ FrameCount(response.target) = 0
    /\ \E j \in JobIds : jobs[j].pc = "scheduled" /\ jobs[j].video = response.target

\* C15: an upload with a malformed project id (400), a project that does
\* not exist (404), a file name already uploaded (400) or a content type
\* other than video/mp4 (400) creates no Video row, starts no job and
\* leaves every project's videos as they were.
C15_RejectedUploadChangesNothing ==
    [][\A v \in Videos, p \in ProjectIdsAsked, ctype \in ContentTypes, shape \in VideoShapes :
          (response'.op = "upload" /\ response'.target = v
             /\ upload_project_video(v, p, ctype, shape)
             /\ (p = MalformedProjectId \/ ~ProjectExists(p) \/ videos[v].exists
                    \/ ctype # "video/mp4")) =>
                /\ response'.code = IF p # MalformedProjectId /\ ~ProjectExists(p) THEN 404 ELSE 400
                /\ UNCHANGED <<videos, jobs, frames, labels, boxes, stored, projects>>]_vars

\* A video of a name that exists was uploaded again and refused.
C15_Witness ==
    /\ response.op = "upload" /\ response.code = 400
    /\ VideoExists(response.target)
    /\ \A j \in JobIds : jobs[j].pc = "idle"

\* A request of a handler that takes a project id, asked with p.
ProjectRequest(p) ==
    \/ get_project(p) \/ rename_project(p) \/ delete_project(p)
    \/ get_project_labels(p) \/ get_project_labeled_images(p) \/ get_project_videos(p)
    \/ \E names \in ClientLabelLists : create_project_labels(p, names)
    \/ \E v \in Videos, ctype \in ContentTypes, shape \in VideoShapes :
          upload_project_video(v, p, ctype, shape)
    \/ \E v \in VideoIdsAsked : UBBSave(p, v, NoCorrections)

\* A request of a handler that takes a video id, asked with v (and, where
\* the handler takes a project id too, with the id of a project).
VideoRequest(v) ==
    \/ get_video(v) \/ delete_video(v) \/ get_video_frames(v)
    \/ restart_video_preprocess(v)
    \/ \E p \in Projects : UBBSave(p, v, NoCorrections)

\* C17: every handler that takes a project id or a video id answers 400 to
\* a malformed id and 404 to a well-formed id of no record, and in both
\* cases creates and changes no record and starts no job.
C17_InvalidIdsRejected ==
    [][/\ \A p \in {MalformedProjectId, MissingProjectId} :
             ProjectRequest(p) =>
                /\ response'.code = IF p = MalformedProjectId THEN 400 ELSE 404
                /\ UNCHANGED <<projects, videos, frames, labels, boxes, stored, jobs, trainer>>
       /\ \A v \in {MalformedVideoId, MissingVideoId} :
             VideoRequest(v) =>
                /\ response'.code = IF v = MalformedVideoId THEN 400 ELSE 404
                /\ UNCHANGED <<projects, videos, frames, labels, boxes, stored, jobs, trainer>>]_vars

\* C16: no two projects have the same name; creating a project under a
\* name that exists is answered 400 and leaves the projects as they were;
\* every created project is in the answer of get_all_projects.
C16_ProjectsUniqueAndListed ==
    /\ [](\A i, k \in 1..Len(projects) : projects[i].name = projects[k].name => i = k)
    /\ [][/\ \A name \in 1..(Len(projects) + 1) :
                (response'.op = "create_project" /\ response'.target = name
                   /\ create_project(name) /\ get_project_by_name(name)) =>
                      response'.code = 400 /\ projects' = projects
          /\ (response'.op = "get_all_projects" /\ get_all_projects) =>
                \A i \in 1..Len(projects) :
                   \E k \in 1..Len(response'.body) : response'.body[k] = projects[i].name]_vars

\* C18: within a job the frames are processed one after the other in
\* sample order. The frames whose decode has started are the first ones of
\* the schedule; at the head of the loop every started frame is complete;
\* while a frame is between its Frame row and its box inserts, its image
\* is stored, its row is inserted and no later frame has been started.
C18_FramesProcessedInOrder ==
    \A j \in JobIds :
       /\ Len(jobs[j].sampled) <= jobs[j].index + 1
       /\ \A i \in 1..Len(jobs[j].sampled) :
             jobs[j].sampled[i] = (i - 1) * videos[jobs[j].video].shape[2]
       /\ jobs[j].pc = "loop" => Len(jobs[j].sampled) = jobs[j].index
       /\ jobs[j].pc \in {"detect", "labels", "boxes"} =>
             /\ Len(jobs[j].sampled) = jobs[j].index + 1
             /\ <<jobs[j].video, jobs[j].index>> \in stored
             /\ jobs[j].frame \in FrameIdsOfVideo(jobs[j].video)
             /\ frames[jobs[j].frame].url = <<jobs[j].video, jobs[j].index>>

\* A job is about to insert the boxes of its first frame; the video has a
\* second sampled frame, which has not been asked for.
C18_Witness ==
    \E j \in JobIds :
       /\ jobs[j].pc = "boxes" /\ jobs[j].det # {}
       /\ jobs[j].sampled = <<0>>
       /\ SampleCount(videos[jobs[j].video].shape) > 1

PredictedBoxesOf(v) == {b \in BoxIdsOfVideo(v) : boxes[b].prediction = TRUE}

\* C20: the boxes the trainer takes for re-prediction are exactly the boxes
\* of the requested video whose prediction flag is true when the trainer
\* reads them (none, when it ends without predicting), and its write-back
\* changes none but these.
C20_RepredictedAreThePredicted ==
    [][/\ (TrainStep /\ trainer'.pc = "fitted") =>
             {trainer'.unreviewed[k].id : k \in 1..Len(trainer'.unreviewed)}
                = PredictedBoxesOf(trainer.video)
       /\ (TrainStep /\ trainer'.pc = "idle" /\ response'.code = 200) =>
             PredictedBoxesOf(trainer.video) = {}
       /\ WriteBackStep =>
             \A b \in 1..Len(boxes) :
                boxes'[b] # boxes[b] =>
                   \E k \in 1..Len(trainer.unreviewed) : trainer.unreviewed[k].id = b]_vars

\* The trainer has read a video with a confirmed box and a predicted box
\* and has taken the predicted one.
C20_Witness ==
    /\ trainer.pc = "fitted"
    /\ trainer.confirmed # {}
    /\ Len(trainer.unreviewed) = 1
    /\ Cardinality(BoxIdsOfVideo(trainer.video)) = 2

\* The (feature vector, label name) pair of a stored box.
ExampleOf(b) == <<boxes[b].features, labels[boxes[b].label].name>>

\* C21: the training set of a correction request holds the (feature vector,
\* label name) pair of every box stored for the video when the trainer
\* reads them, confirmed or not, each as often as it occurs; a request
\* starts with no training set and no classifier of an earlier request.
C21_TrainsOnAllBoxesAfresh ==
    [][/\ (TrainStep /\ trainer'.pc = "fitted") =>
             /\ Len(trainer'.train) = Cardinality(BoxIdsOfVideo(trainer.video))
             /\ \A b \in BoxIdsOfVideo(trainer.video) :
                   Cardinality({k \in 1..Len(trainer'.train) : trainer'.train[k] = ExampleOf(b)})
                     = Cardinality({c \in BoxIdsOfVideo(trainer.video) : ExampleOf(c) = ExampleOf(b)})
       /\ (trainer.pc = "idle" /\ trainer'.pc = "saved") =>
             trainer'.train = <<>> /\ trainer'.label2id = <<>>]_vars

\* After a first correction request has completed, a second one has
\* trained on a confirmed box and a predicted box.
C21_Witness ==
    /\ trainer.pc = "fitted"
    /\ response.op = "correct" /\ response.code = 200
    /\ Len(trainer.train) = 2
    /\ trainer.confirmed # {} /\ Len(trainer.unreviewed) = 1

\* C22: when the jobs of a video that cannot be decoded (no frame, or a
\* zero frame rate) have ended, the status of the video is failed.
C22_UndecodableVideoFails ==
    \A v \in UploadVideos :
        (/\ videos[v].exists
         /\ videos[v].shape \in UndecodableShapes
         /\ \E j \in JobIds : jobs[j].video = v /\ JobEnded(j)
         /\ \A j \in JobIds : jobs[j].video = v => JobEnded(j)) =>
            videos[v].status = "failed"

\* The Frame rows of video v that have at least one box.
FramesWithBoxes(v) == {f \in FrameIdsOfVideo(v) : \E b \in 1..Len(boxes) : boxes[b].frame = f}

\* C23: a sampled frame on which nothing is detected is not an error: its
\* Frame row stays, no box and no label is added for it and the job goes
\* on with the next frame; after a successful run the Frame rows with at
\* least one box are as many as the sampled frames on which something was
\* detected.
C23_NoDetectionIsNoError ==
    /\ [][\A j \in JobIds :
             (jobs[j].pc = "boxes" /\ jobs[j].det = {} /\ jobs'[j] # jobs[j]) =>
                 /\ jobs'[j].pc = "loop" /\ jobs'[j].index = jobs[j].index + 1
                 /\ UNCHANGED <<frames, boxes, labels>>]_vars
    /\ [](\A j \in JobIds :
             (jobs[j].pc = "done" /\ jobs[j].failedAt = -1 /\ OnlyJobOfVideo(j)) =>
                 Cardinality(FramesWithBoxes(jobs[j].video)) = jobs[j].detected)

StatusTransitions ==
    {<<"unset", "in_progress">>, <<"in_progress", "success">>,
     <<"in_progress", "failed">>, <<"failed", "in_progress">>}

\* C26: the first step of a job sets the status to in_progress and neither
\* decodes nor stores nor records a frame; when the jobs of a video run one
\* at a time, the status is in_progress as long as a job of the video is
\* between its start and its last status write, and the status changes
\* only from unset to in_progress, from in_progress to success or failed
\* and from failed to in_progress.
C26_StatusProtocol ==
    /\ [][/\ \A j \in JobIds :
                (jobs[j].pc = "scheduled" /\ jobs'[j].pc # "scheduled") =>
                    /\ videos'[jobs[j].video].status = "in_progress"
                    /\ jobs'[j].sampled = <<>>
                    /\ UNCHANGED <<frames, stored, boxes, labels>>
          /\ \A v \in Videos :
                videos'[v].status # videos[v].status =>
                    <<videos[v].status, videos'[v].status>> \in StatusTransitions]_vars
    /\ [](\A j \in JobIds :
             /\ jobs[j].pc = "scheduled" => jobs[j].sampled = <<>>
             /\ JobActive(j) => videos[jobs[j].video].status = "in_progress")

\* The re-run of a video whose first run failed is between its start and
\* its last status write.
C26_Witness ==
    \E j \in JobIds :
       /\ jobs[j].kind = "restart" /\ jobs[j].prior = "failed"
       /\ jobs[j].pc = "detect"
       /\ videos[jobs[j].video].status = "in_progress"

\* C27: once the status of a video is success it stays success, and no
\* Frame or BoundingBox row is added to the video afterwards, whatever
\* restarts and jobs interleave.
C27_SuccessIsStable ==
    [][\A v \in Videos :
          (videos[v].exists /\ videos[v].status = "success") =>
              /\ videos'[v].status = "success"
              /\ {f \in 1..Len(frames') : frames'[f].video = v} = FrameIdsOfVideo(v)
              /\ {b \in 1..Len(boxes') :
                     boxes'[b].frame \in 1..Len(frames') /\ frames'[boxes'[b].frame].video = v}
                   = BoxIdsOfVideo(v)]_vars

\* C28: a box that was confirmed (prediction set to false) after the
\* trainer read the boxes of the video and before it writes back keeps its
\* flag and its label through the trainer's write-back.
C28_ConfirmationSurvivesWriteBack ==
    [][WriteBackStep =>
          \A k \in 1..Len(trainer.unreviewed) :
             LET b == trainer.unreviewed[k].id
             IN boxes[b].prediction = FALSE =>
                   boxes'[b].prediction = FALSE /\ boxes'[b].label = boxes[b].label]_vars

\* The label of every box is a label of the project that owns the video of
\* the box's frame.
LabelsOfOwningProject ==
    \A b \in 1..Len(boxes) :
       labels[boxes[b].label].project = videos[frames[boxes[b].frame].video].project

\* The correction request in progress names a project that is not the
\* owner of the video it names.
ForeignProjectAsked ==
    /\ trainer.pc = "saved"
    /\ trainer.project # videos[trainer.video].project

\* C29: after any correction request every box's label belongs to the
\* project that owns the box's frame, and a correction request that names
\* an existing project other than the owner of the existing video does not
\* end in a server error.
C29_ForeignProjectIsHarmless ==
    /\ []LabelsOfOwningProject
    /\ [][ForeignProjectAsked /\ trainer'.pc = "idle" => response'.code # 500]_vars

\* No two Frame rows of one video hold the same storage URL.
FrameUrlsDistinct ==
    \A f, g \in 1..Len(frames) :
       frames[f].video = frames[g].video /\ frames[f].url = frames[g].url => f = g

\* C30: after any sequence of preprocessing runs of a video no two of its
\* Frame rows share a storage URL, and the frame a run persists after i
\* others is recorded at the path numbered i.
C30_FrameUrlsUniquePerVideo ==
    /\ []FrameUrlsDistinct
    /\ [][\A j \in JobIds :
             jobs[j].pc = "loop" /\ jobs'[j].pc = "detect" =>
                /\ Len(frames') = Len(frames) + 1
                /\ frames'[Len(frames')].url = <<jobs[j].video, jobs[j].index>>]_vars

====
